---- MODULE Spec2Model ----
(***************************************************************************)
(* Model of the order / payment core of the e-commerce backend:            *)
(*   - services/razorpay.service.ts : getRazorpayInstance, the process-    *)
(*     wide cache of the payment-gateway client (60 s staleness window);   *)
(*   - controllers/admin.controller.ts : getIntegrations,                  *)
(*     updateIntegration, getPaymentGateways, updatePaymentGateway,        *)
(*     updateProduct, updateStock, deleteProduct, updateOrderStatus;       *)
(*   - controllers/order.controller.ts : createRazorpayOrder, placeOrder;  *)
(*   - services/audit.service.ts : logAdminAction.                         *)
(*                                                                         *)
(* A JavaScript value that the code only tests for truthiness is modelled  *)
(* as a string, "" standing for every falsy value (undefined, null, "").   *)
(***************************************************************************)
EXTENDS Integers, Sequences, FiniteSets, TLC

\* ------------------------------------------------------------------ bounds
MaxLookups == 3        \* configuration lookups the accessor issues in one run
MaxElapsed == 90000    \* how far the clock runs past BootTime (ms)
BootTime == 100000     \* Date.now() when the process starts (ms, past the TTL)
MaxAudit == 1          \* admin audit entries kept in one run
MaxOrders == 1         \* orders persisted in one run
MaxItems == 2          \* line items of one order payload
MaxVariants == 3       \* product variants ever created
MaxIncoming == 2       \* entries of one variants payload

\* ------------------------------------------------------- program constants
CACHE_TTL == 60000     \* razorpay.service.ts: Date.now() - lastFetched < 60000

\* the concurrent callers of getRazorpayInstance (requests in flight); every
\* race over the two module variables is a race between two continuations
Procs == {1, 2}
TickSteps == {29999, 30000}

VARIABLES
    now,               \* Date.now()
    razorpayInstance,  \* module variable: the cached client, NoClient = null
    lastFetched,       \* module variable: build time of the cached client
    integration,       \* prisma.integration: name -> record
    adminActivityLog,  \* prisma.adminActivityLog: sequence of action strings
    pc,                \* per caller: position inside getRazorpayInstance
    fetched,           \* per caller: what its findUnique produced
    ret,               \* per caller: the value its call resolved to
    hit,               \* per caller: the call returned on the cache-hit path
    cfgChanged,        \* per caller: the stored record changed since the call began
    readOutdated,      \* per caller: the stored record changed since its findUnique was served
    cacheOutdated,     \* the stored record changed since the read the cache was last written from
    lookups,           \* prisma.integration.findUnique calls issued by the accessor
    built,             \* Razorpay clients constructed (identity of the newest)
    orders,            \* prisma.order with its nested items, in creation order
    activityLog,       \* prisma.activityLog: the public feed, a sequence of messages
    req,               \* the caller of the last placeOrder call: user id, guestDetails
    res,               \* what the last placeOrder call answered
    attempted,         \* the writes the last placeOrder call issued
    cro,               \* per caller: its createRazorpayOrder request
    paymentGateway,    \* prisma.paymentGateway: name -> record
    product,           \* prisma.product: id -> row
    productVariant,    \* prisma.productVariant: id -> row
    variantSeq,        \* variant ids handed out so far
    productRes         \* what the last updateProduct call answered

cacheVars == <<razorpayInstance, lastFetched>>
callVars == <<pc, fetched, ret, hit, cfgChanged, readOutdated, cacheOutdated, lookups,
              built>>
dbVars == <<integration, adminActivityLog>>
orderVars == <<orders, activityLog, req, res, attempted>>
catalogVars == <<product, productVariant, variantSeq, productRes>>
shopVars == <<orders, activityLog, req, res, attempted, product, productVariant,
             variantSeq, productRes, paymentGateway>>
gatewayVars == <<now, razorpayInstance, lastFetched, integration, pc, fetched, ret,
                 hit, cfgChanged, readOutdated, cacheOutdated, lookups, built, cro,
                 paymentGateway>>
vars == <<now, razorpayInstance, lastFetched, integration, adminActivityLog, pc,
          fetched, ret, hit, cfgChanged, readOutdated, cacheOutdated, lookups, built,
          orders, activityLog, req,
          res, attempted, cro, paymentGateway, product, productVariant, variantSeq,
          productRes>>

\* ------------------------------------------------------------------ values
Truthy(v) == v # ""

\* new Razorpay({ key_id, key_secret }); id tells two constructions apart
Client(n, keyId, keySecret) == [id |-> n, key_id |-> keyId, key_secret |-> keySecret]
NoClient == Client(0, "", "")

EmptySettings == [apiKey |-> "", apiSecret |-> ""]
SettingsValues ==
    { EmptySettings,
      [apiKey |-> "k1", apiSecret |-> "s1"],
      [apiKey |-> "k2", apiSecret |-> "s2"],
      [apiKey |-> "k1", apiSecret |-> ""],
      [apiKey |-> "", apiSecret |-> "s1"] }

DEFAULT_INTEGRATIONS == <<"Facebook Pixel", "Razorpay", "Shiprocket", "Mailchimp">>
IntegrationNames == { DEFAULT_INTEGRATIONS[i] : i \in 1 .. Len(DEFAULT_INTEGRATIONS) }

IntegrationRecord(e, s) == [present |-> TRUE, enabled |-> e, settings |-> s]
NoRecord == [present |-> FALSE, enabled |-> FALSE, settings |-> EmptySettings]
DefaultRecord == IntegrationRecord(FALSE, EmptySettings)

\* req.body of updateIntegration: the fields it carries and their values
UpdateBody(he, e, hs, s) ==
    [hasEnabled |-> he, enabled |-> e, hasSettings |-> hs, settings |-> s]
UpdateBodies ==
    { UpdateBody(TRUE, e, FALSE, EmptySettings) : e \in BOOLEAN }
    \cup { UpdateBody(FALSE, FALSE, TRUE, s) : s \in SettingsValues }
    \cup { UpdateBody(TRUE, TRUE, TRUE, [apiKey |-> "k1", apiSecret |-> "s1"]) }

NoFetch == [threw |-> FALSE, rec |-> NoRecord]

\* ------------------------------------------- IEEE-754 doubles (JS numbers)
\* A positive double is a significand of SIGNIFICAND_BITS bits, the most
\* significant first, the last fracLen of them behind the binary point. The
\* arithmetic is on bits and on limbs of 15 bits, so that no intermediate
\* value leaves the 32-bit integers.
SIGNIFICAND_BITS == 53

\* the number of bits of a natural number (0 for 0)
BitLength(n) == CHOOSE l \in 0 .. 30 : n < 2 ^ l /\ (l = 0 \/ n >= 2 ^ (l - 1))

\* the last w bits of n, most significant first
FixedBits(n, w) == [k \in 1 .. w |-> (n \div 2 ^ (w - k)) % 2]
IntBits(n) == FixedBits(n, BitLength(n))

RECURSIVE BitsToInt(_)
BitsToInt(bits) ==
    IF Len(bits) = 0 THEN 0
    ELSE IF Len(bits) = 1 THEN bits[1]
    ELSE LET h == Len(bits) \div 2
         IN BitsToInt(SubSeq(bits, 1, h)) * 2 ^ (Len(bits) - h)
            + BitsToInt(SubSeq(bits, h + 1, Len(bits)))

\* bits + 1; a carry out of the first bit lengthens the sequence
Increment(bits) ==
    LET zeros == { j \in 1 .. Len(bits) : bits[j] = 0 }
    IN IF zeros = {}
       THEN [k \in 1 .. Len(bits) + 1 |-> IF k = 1 THEN 1 ELSE 0]
       ELSE LET last == CHOOSE j \in zeros : \A z \in zeros : z <= j
            IN [k \in 1 .. Len(bits) |->
                  IF k < last THEN bits[k] ELSE IF k = last THEN 1 ELSE 0]

\* 2^i modulo 1000, by squaring
RECURSIVE Pow2Mod(_)
Pow2Mod(i) ==
    IF i = 0 THEN 1
    ELSE LET h == Pow2Mod(i \div 2)
         IN (h * h * (IF i % 2 = 1 THEN 2 ELSE 1)) % 1000

\* r / 1000 in binary, 0 <= r < 1000: what is left behind the first i bits
\* after the point (in thousandths of a unit of the i-th), and the i-th bit
FracRest(r, i) == (r * Pow2Mod(i)) % 1000
FracBit(r, i) == IF 2 * FracRest(r, i - 1) >= 1000 THEN 1 ELSE 0

\* round to nearest, ties to even: up = the dropped part is more than half a
\* unit in the last place, or exactly half with the last kept bit odd
RoundToEven(sig, fracLen, up) ==
    IF ~up THEN [sig |-> sig, fracLen |-> fracLen]
    ELSE LET inc == Increment(sig)
         IN IF Len(inc) > Len(sig)
            THEN [sig |-> SubSeq(inc, 1, Len(sig)), fracLen |-> fracLen - 1]
            ELSE [sig |-> inc, fracLen |-> fracLen]

\* the double nearest to t / 1000, t > 0: what the body parser makes of a
\* decimal with three places
ToDouble(t) ==
    LET whole == t \div 1000
        r == t % 1000
        intLen == BitLength(whole)
        zeros == IF intLen > 0 THEN 0
                 ELSE (CHOOSE i \in 1 .. 10 :
                         FracBit(r, i) = 1 /\ \A j \in 1 .. i - 1 : FracBit(r, j) = 0) - 1
        fracLen == SIGNIFICAND_BITS - intLen + zeros
        sig == [k \in 1 .. SIGNIFICAND_BITS |->
                  IF k <= intLen THEN (whole \div 2 ^ (intLen - k)) % 2
                  ELSE FracBit(r, k - intLen + zeros)]
        rest == FracRest(r, fracLen)
        up == 2 * rest > 1000 \/ (2 * rest = 1000 /\ sig[SIGNIFICAND_BITS] = 1)
    IN RoundToEven(sig, fracLen, up)

\* the j-th limb of 15 bits, counted from the last bit, j = 0, 1, ...
Limb(bits, j) ==
    LET hi == Len(bits) - 15 * j
        lo == IF hi - 14 < 1 THEN 1 ELSE hi - 14
    IN BitsToInt(SubSeq(bits, lo, hi))

\* the carry into limb j of bits * k
RECURSIVE Carry(_, _, _)
Carry(bits, k, j) ==
    IF j = 0 THEN 0 ELSE (Limb(bits, j - 1) * k + Carry(bits, k, j - 1)) \div 32768

\* the bits of bits * k, k < 2^15, limb by limb
MulSmall(bits, k) ==
    LET top == (Len(bits) - 1) \div 15
        low == [i \in 1 .. 15 * top |->
                  LET j == top - 1 - (i - 1) \div 15
                  IN FixedBits((Limb(bits, j) * k + Carry(bits, k, j)) % 32768, 15)
                       [((i - 1) % 15) + 1]]
    IN IntBits(Limb(bits, top) * k + Carry(bits, k, top)) \o low

\* d * k as the double multiplication computes it: the exact product rounded
\* to SIGNIFICAND_BITS bits
Times(d, k) ==
    LET exact == MulSmall(d.sig, k)
        drop == Len(exact) - SIGNIFICAND_BITS
        kept == SubSeq(exact, 1, SIGNIFICAND_BITS)
        half == drop > 0 /\ exact[SIGNIFICAND_BITS + 1] = 1
        rest == \E i \in SIGNIFICAND_BITS + 2 .. Len(exact) : exact[i] = 1
        up == half /\ (rest \/ kept[SIGNIFICAND_BITS] = 1)
    IN RoundToEven(kept, d.fracLen - drop, up)

\* Math.round of the positive double d (negative = FALSE) or of -d: the
\* integer nearest to it, a half going towards plus infinity
MathRound(d, negative) ==
    LET intLen == SIGNIFICAND_BITS - d.fracLen
        n == IF intLen > 0 THEN BitsToInt(SubSeq(d.sig, 1, intLen)) ELSE 0
        half == intLen >= 0 /\ d.sig[intLen + 1] = 1
        rest == \E i \in intLen + 2 .. SIGNIFICAND_BITS : i >= 1 /\ d.sig[i] = 1
    IN IF negative
       THEN 0 - (n + IF half /\ rest THEN 1 ELSE 0)
       ELSE n + IF half THEN 1 ELSE 0

\* Math.round(totalAmount * 100), totalAmount being t thousandths
MinorUnits(t) ==
    IF t = 0 THEN 0
    ELSE IF t > 0 THEN MathRound(Times(ToDouble(t), 100), FALSE)
    ELSE MathRound(Times(ToDouble(0 - t), 100), TRUE)

\* ------------------------------------------------- services/audit.service.ts
\* logAdminAction: no entry without req.user; a failed write is swallowed
logAdminAction(hasUser, action, writeFails) ==
    IF hasUser /\ ~writeFails
    THEN adminActivityLog' = Append(adminActivityLog, action)
    ELSE adminActivityLog' = adminActivityLog

\* ---------------------------------------------- services/razorpay.service.ts
CacheValidInclusive(t) == t - lastFetched <= CACHE_TTL
CacheValidHalf(t) == t - lastFetched < CACHE_TTL \div 2

\* const cacheValid = Date.now() - lastFetched < 60000
CacheValid(t) == t - lastFetched < CACHE_TTL

\* if (razorpayInstance && cacheValid)
CacheHit == razorpayInstance # NoClient /\ CacheValid(now)

\* razorpaySettings && razorpaySettings.enabled && keyId && keySecret
ConfigUsable(f) ==
    /\ ~f.threw
    /\ f.rec.present
    /\ f.rec.enabled
    /\ Truthy(f.rec.settings.apiKey)
    /\ Truthy(f.rec.settings.apiSecret)

\* the synchronous head of a call: cache test, then return or issue findUnique
GriStart(p) ==
    /\ pc[p] \in {"idle", "done"}
    /\ cfgChanged' = [cfgChanged EXCEPT ![p] = FALSE]
    /\ readOutdated' = [readOutdated EXCEPT ![p] = FALSE]
    /\ fetched' = [fetched EXCEPT ![p] = NoFetch]
    /\ IF CacheHit
       THEN /\ pc' = [pc EXCEPT ![p] = "done"]
            /\ ret' = [ret EXCEPT ![p] = razorpayInstance]
            /\ hit' = [hit EXCEPT ![p] = TRUE]
            /\ UNCHANGED lookups
       ELSE /\ lookups < MaxLookups
            /\ pc' = [pc EXCEPT ![p] = "lookup"]
            /\ ret' = [ret EXCEPT ![p] = NoClient]
            /\ hit' = [hit EXCEPT ![p] = FALSE]
            /\ lookups' = lookups + 1
    /\ UNCHANGED <<now, cacheVars, dbVars, cacheOutdated, built, shopVars>>

\* a call of the accessor that is not made by a createRazorpayOrder request
\* of this caller
getRazorpayInstance(p) ==
    /\ cro[p].pc \in {"idle", "done"}
    /\ GriStart(p)
    /\ UNCHANGED cro

\* the database serves prisma.integration.findUnique({ name: 'Razorpay' }),
\* or the query fails
GriDbRead(p) ==
    /\ pc[p] = "lookup"
    /\ pc' = [pc EXCEPT ![p] = "resume"]
    /\ \E threw \in BOOLEAN :
         fetched' = [fetched EXCEPT ![p] =
                       IF threw THEN [threw |-> TRUE, rec |-> NoRecord]
                       ELSE [threw |-> FALSE, rec |-> integration["Razorpay"]]]
    /\ readOutdated' = [readOutdated EXCEPT ![p] = FALSE]
    /\ UNCHANGED <<now, cacheVars, dbVars, ret, hit, cfgChanged, cacheOutdated, lookups,
                   built, shopVars, cro>>

GriResumeKeepOnFailure(p) ==
    /\ pc[p] = "resume"
    /\ pc' = [pc EXCEPT ![p] = "done"]
    /\ IF ConfigUsable(fetched[p])
       THEN /\ built' = built + 1
            /\ razorpayInstance' = Client(built + 1, fetched[p].rec.settings.apiKey,
                                          fetched[p].rec.settings.apiSecret)
            /\ lastFetched' = now
            /\ ret' = [ret EXCEPT ![p] = razorpayInstance']
       ELSE /\ ret' = [ret EXCEPT ![p] = NoClient]
            /\ UNCHANGED <<razorpayInstance, lastFetched, built>>
    /\ fetched' = [fetched EXCEPT ![p] = NoFetch]
    /\ cacheOutdated' = (readOutdated[p] \/ fetched[p].threw)
    /\ readOutdated' = [readOutdated EXCEPT ![p] = FALSE]
    /\ UNCHANGED <<now, dbVars, hit, cfgChanged, lookups, shopVars, cro>>

GriResumeFirstWriterWins(p) ==
    /\ pc[p] = "resume"
    /\ pc' = [pc EXCEPT ![p] = "done"]
    /\ IF ConfigUsable(fetched[p])
       THEN /\ built' = built + 1
            /\ ret' = [ret EXCEPT ![p] =
                         Client(built + 1, fetched[p].rec.settings.apiKey,
                                fetched[p].rec.settings.apiSecret)]
            /\ IF razorpayInstance = NoClient
               THEN razorpayInstance' = ret'[p] /\ lastFetched' = now
               ELSE UNCHANGED <<razorpayInstance, lastFetched>>
       ELSE /\ razorpayInstance' = NoClient
            /\ ret' = [ret EXCEPT ![p] = NoClient]
            /\ UNCHANGED <<lastFetched, built>>
    /\ fetched' = [fetched EXCEPT ![p] = NoFetch]
    /\ cacheOutdated' = (readOutdated[p] \/ fetched[p].threw)
    /\ readOutdated' = [readOutdated EXCEPT ![p] = FALSE]
    /\ UNCHANGED <<now, dbVars, hit, cfgChanged, lookups, shopVars, cro>>

\* the continuation after the await: build and cache a client, or clear the
\* cache; the catch block does the same as the fall-through
GriResume(p) ==
    /\ pc[p] = "resume"
    /\ pc' = [pc EXCEPT ![p] = "done"]
    /\ IF ConfigUsable(fetched[p])
       THEN /\ built' = built + 1
            /\ razorpayInstance' = Client(built + 1, fetched[p].rec.settings.apiKey,
                                          fetched[p].rec.settings.apiSecret)
            /\ lastFetched' = now
            /\ ret' = [ret EXCEPT ![p] = razorpayInstance']
       ELSE /\ razorpayInstance' = NoClient
            /\ ret' = [ret EXCEPT ![p] = NoClient]
            /\ UNCHANGED <<lastFetched, built>>
    /\ fetched' = [fetched EXCEPT ![p] = NoFetch]
    /\ cacheOutdated' = (readOutdated[p] \/ fetched[p].threw)
    /\ readOutdated' = [readOutdated EXCEPT ![p] = FALSE]
    /\ UNCHANGED <<now, dbVars, hit, cfgChanged, lookups, shopVars, cro>>

\* ------------------------------------------- controllers/admin.controller.ts
getIntegrationsResetting(upserts) ==
    /\ integration' =
         [n \in IntegrationNames |->
            IF \E i \in 1 .. upserts : DEFAULT_INTEGRATIONS[i] = n
            THEN DefaultRecord
            ELSE integration[n]]
    /\ UNCHANGED <<now, cacheVars, adminActivityLog, callVars, shopVars, cro>>

\* getIntegrations: one upsert per default, in the order of the list (update: {}
\* keeps an existing record); the loop is no transaction, so a failed upsert
\* ends it and keeps what the earlier ones created. upserts = the upserts that
\* succeeded, Len(DEFAULT_INTEGRATIONS) when none failed
getIntegrations(upserts) ==
    /\ integration' =
         [n \in IntegrationNames |->
            IF integration[n].present
               \/ ~(\E i \in 1 .. upserts : DEFAULT_INTEGRATIONS[i] = n)
            THEN integration[n]
            ELSE DefaultRecord]
    /\ UNCHANGED <<now, cacheVars, adminActivityLog, callVars, shopVars, cro>>

\* data: dataToUpdate applied to the record found by id
ApplyUpdate(rec, body) ==
    [present |-> TRUE,
     enabled |-> IF body.hasEnabled THEN body.enabled ELSE rec.enabled,
     settings |-> IF body.hasSettings THEN body.settings ELSE rec.settings]

updateIntegrationInvalidating(name, body) ==
    /\ Len(adminActivityLog) < MaxAudit
    /\ integration[name].present
    /\ integration' = [integration EXCEPT ![name] = ApplyUpdate(@, body)]
    /\ razorpayInstance' = NoClient
    /\ lastFetched' = 0
    /\ cfgChanged' = [p \in Procs |-> cfgChanged[p] \/ integration' # integration]
    /\ readOutdated' =
         [p \in Procs |-> readOutdated[p]
                           \/ (pc[p] = "resume" /\ integration' # integration)]
    /\ cacheOutdated' = (cacheOutdated \/ integration' # integration)
    /\ \E writeFails \in BOOLEAN :
         logAdminAction(TRUE, "Updated integration", writeFails)
    /\ UNCHANGED <<now, pc, fetched, ret, hit, lookups, built, shopVars, cro>>

\* updateIntegration: prisma.integration.update throws when no record has the
\* id; otherwise the record is updated and the action is audited
updateIntegration(name, body) ==
    /\ Len(adminActivityLog) < MaxAudit
    /\ IF integration[name].present
       THEN /\ integration' = [integration EXCEPT ![name] = ApplyUpdate(@, body)]
            /\ cfgChanged' = [p \in Procs |-> cfgChanged[p] \/ integration' # integration]
            /\ readOutdated' =
                 [p \in Procs |-> readOutdated[p]
                                   \/ (pc[p] = "resume" /\ integration' # integration)]
            /\ cacheOutdated' = (cacheOutdated \/ integration' # integration)
            /\ \E writeFails \in BOOLEAN :
                 logAdminAction(TRUE, "Updated integration", writeFails)
       ELSE UNCHANGED <<integration, adminActivityLog, cfgChanged, readOutdated,
                        cacheOutdated>>
    /\ UNCHANGED <<now, cacheVars, pc, fetched, ret, hit, lookups, built, shopVars, cro>>

\* the payment gateways: a table of its own, with the same two handlers
DEFAULT_GATEWAYS ==
    << [name |-> "Razorpay", enabled |-> FALSE],
       [name |-> "Cash on Delivery", enabled |-> TRUE] >>
GatewayNames == { DEFAULT_GATEWAYS[i].name : i \in 1 .. Len(DEFAULT_GATEWAYS) }

\* getPaymentGateways: one prisma.paymentGateway.upsert per default, in order;
\* upserts = the upserts that succeeded
getPaymentGateways(upserts) ==
    /\ paymentGateway' =
         [n \in GatewayNames |->
            IF paymentGateway[n].present THEN paymentGateway[n]
            ELSE IF \E i \in 1 .. upserts : DEFAULT_GATEWAYS[i].name = n
            THEN IntegrationRecord(
                   (CHOOSE g \in { DEFAULT_GATEWAYS[i] : i \in 1 .. upserts } :
                      g.name = n).enabled,
                   EmptySettings)
            ELSE paymentGateway[n]]
    /\ UNCHANGED <<now, cacheVars, dbVars, callVars, orderVars, catalogVars, cro>>

\* updatePaymentGateway: prisma.paymentGateway.update throws when no record
\* has the id; nothing is audited
updatePaymentGateway(name, body) ==
    /\ IF paymentGateway[name].present
       THEN paymentGateway' = [paymentGateway EXCEPT ![name] = ApplyUpdate(@, body)]
       ELSE UNCHANGED paymentGateway
    /\ UNCHANGED <<now, cacheVars, dbVars, callVars, orderVars, catalogVars, cro>>

\* ------------------- controllers/order.controller.ts, createRazorpayOrder
\* req.body.totalAmount: absent, null, the empty string, or a number given in
\* thousandths of a rupee
Undefined == [kind |-> "undefined", thousandths |-> 0]
Null == [kind |-> "null", thousandths |-> 0]
EmptyString == [kind |-> "string", thousandths |-> 0]
Number(t) == [kind |-> "number", thousandths |-> t]
Amounts ==
    { Undefined, Null, EmptyString, Number(0), Number(-1500), Number(1005),
      Number(19999) }

AmountPresent(v) == v.kind # "undefined"

\* !totalAmount is false: of these values, for the numbers other than 0
AmountTruthy(v) == v.kind = "number" /\ v.thousandths # 0

\* Math.round(totalAmount * 100) of every amount a request may carry
Amount == [v \in Amounts |-> MinorUnits(v.thousandths)]

\* what is thrown inside the try block: error.statusCode (0 = none) and
\* error.error.description, a sequence of words (<<>> = none)
Error(statusCode, hasError, description) ==
    [thrown |-> TRUE, statusCode |-> statusCode,
     error |-> [present |-> hasError, description |-> description]]
NoError == [Error(0, FALSE, <<>>) EXCEPT !.thrown = FALSE]
DbError == Error(0, FALSE, <<>>)
ProcessorErrors ==
    { Error(401, TRUE, <<"The", "api", "key", "provided", "is", "invalid">>),
      Error(400, TRUE, <<"Authentication", "failed">>),
      Error(400, TRUE, <<"BAD_REQUEST_ERROR:", "Authentication", "failed", "for", "key">>),
      Error(400, TRUE, <<"Order", "amount", "less", "than", "minimum">>),
      Error(500, FALSE, <<>>) }

\* String.prototype.includes over words
Includes(s, needle) ==
    \E i \in 0 .. Len(s) - Len(needle) : SubSeq(s, i + 1, i + Len(needle)) = needle

\* what one request is answered with: res.status(..).json(..), or next(error)
Response(status, message, keyId) ==
    [kind |-> "response", status |-> status, message |-> message, keyId |-> keyId,
     error |-> NoError]
Forwarded(error) ==
    [kind |-> "next", status |-> 0, message |-> "", keyId |-> "", error |-> error]

AmountRequired == Response(400, "Total amount is required", "")
ServiceUnavailable ==
    Response(503, "Payment service is currently unavailable. Please check and enable Razorpay in Integrations with correct keys.", "")
KeyNotConfigured == Response(503, "Razorpay Key ID is not configured.", "")
AuthenticationFailed ==
    Response(503, "Razorpay authentication failed. Please check your Key ID and Key Secret in Admin Panel > Settings > Integrations.", "")
Created(keyId) == Response(200, "", keyId)

\* the options object; receipt_order_${Date.now()} is the time it is built at
Options(amount, receipt) == [amount |-> amount, currency |-> "INR", receipt |-> receipt]
NoOptions == [amount |-> 0, currency |-> "", receipt |-> 0]

\* how often one request called the accessor, read the configuration itself
\* and called razorpay.orders.create
Calls(accessor, config, processor) ==
    [accessor |-> accessor, config |-> config, processor |-> processor]

\* the frame of one request: its position, its locals, what it sent to the
\* processor, what its try block threw, the outcomes it produced
CroIdle ==
    [pc |-> "idle", totalAmount |-> Undefined, razorpay |-> NoClient, fetched |-> NoFetch,
     keyId |-> "", options |-> NoOptions, error |-> NoError, out |-> <<>>,
     calls |-> Calls(0, 0, 0)]

AuthenticationStyleStatusOnly(error) == error.statusCode = 401

\* error.statusCode === 401 || (error.error && error.error.description &&
\* error.error.description.includes('Authentication failed'))
AuthenticationStyle(error) ==
    \/ error.statusCode = 401
    \/ /\ error.error.present
       /\ error.error.description # <<>>
       /\ Includes(error.error.description, <<"Authentication", "failed">>)

\* the catch block: 503 for an authentication-style failure, next(error) otherwise
CroCatch(error) ==
    IF AuthenticationStyle(error) THEN AuthenticationFailed ELSE Forwarded(error)

\* the head of the handler: 400 without an amount, otherwise the call of
\* getRazorpayInstance, which runs up to its first await in the same turn
CroStart(p, totalAmount) ==
    /\ cro[p].pc \in {"idle", "done"}
    /\ IF ~AmountTruthy(totalAmount)
       THEN /\ cro' = [cro EXCEPT ![p] =
                         [CroIdle EXCEPT !.pc = "done", !.totalAmount = totalAmount,
                                         !.out = <<AmountRequired>>]]
            /\ UNCHANGED <<now, cacheVars, dbVars, callVars, shopVars>>
       ELSE /\ cro' = [cro EXCEPT ![p] =
                         [CroIdle EXCEPT !.pc = "accessor", !.totalAmount = totalAmount,
                                         !.calls = Calls(1, 0, 0)]]
            /\ GriStart(p)

\* after await getRazorpayInstance(): 503 without a client, otherwise the
\* handler's own findUnique is issued
CroGotInstance(p) ==
    /\ cro[p].pc = "accessor"
    /\ pc[p] = "done"
    /\ IF ret[p] = NoClient
       THEN cro' = [cro EXCEPT ![p].pc = "done",
                               ![p].out = Append(@, ServiceUnavailable)]
       ELSE cro' = [cro EXCEPT ![p].pc = "config",
                               ![p].razorpay = ret[p],
                               ![p].calls.config = @ + 1]
    /\ UNCHANGED <<now, cacheVars, dbVars, callVars, shopVars>>

\* the database serves the handler's findUnique({ name: 'Razorpay' }), or the
\* query fails
CroDbRead(p) ==
    /\ cro[p].pc = "config"
    /\ \E threw \in BOOLEAN :
         cro' = [cro EXCEPT ![p].pc = "settings",
                            ![p].fetched =
                               IF threw THEN [threw |-> TRUE, rec |-> NoRecord]
                               ELSE [threw |-> FALSE, rec |-> integration["Razorpay"]]]
    /\ UNCHANGED <<now, cacheVars, dbVars, callVars, shopVars>>

CroGotSettingsWithoutKeyCheck(p) ==
    /\ cro[p].pc = "settings"
    /\ LET keyId == cro[p].fetched.rec.settings.apiKey
       IN IF cro[p].fetched.threw
          THEN cro' = [cro EXCEPT ![p].pc = "done",
                                  ![p].fetched = NoFetch,
                                  ![p].error = DbError,
                                  ![p].out = Append(@, CroCatch(DbError))]
          ELSE cro' = [cro EXCEPT ![p].pc = "processor",
                                  ![p].fetched = NoFetch,
                                  ![p].keyId = keyId,
                                  ![p].options =
                                     Options(Amount[cro[p].totalAmount], now),
                                  ![p].calls.processor = @ + 1]
    /\ UNCHANGED <<now, cacheVars, dbVars, callVars, shopVars>>

\* after the await of findUnique: the catch block when it threw, 503 without
\* an apiKey, otherwise the options are built and razorpay.orders.create is
\* called
CroGotSettings(p) ==
    /\ cro[p].pc = "settings"
    /\ LET keyId == cro[p].fetched.rec.settings.apiKey
       IN IF cro[p].fetched.threw
          THEN cro' = [cro EXCEPT ![p].pc = "done",
                                  ![p].fetched = NoFetch,
                                  ![p].error = DbError,
                                  ![p].out = Append(@, CroCatch(DbError))]
          ELSE IF ~Truthy(keyId)
          THEN cro' = [cro EXCEPT ![p].pc = "done",
                                  ![p].fetched = NoFetch,
                                  ![p].out = Append(@, KeyNotConfigured)]
          ELSE cro' = [cro EXCEPT ![p].pc = "processor",
                                  ![p].fetched = NoFetch,
                                  ![p].keyId = keyId,
                                  ![p].options =
                                     Options(Amount[cro[p].totalAmount], now),
                                  ![p].calls.processor = @ + 1]
    /\ UNCHANGED <<now, cacheVars, dbVars, callVars, shopVars>>

CroProcessorAnswerRetrying(p) ==
    /\ cro[p].pc = "processor"
    /\ \E failed \in BOOLEAN, error \in ProcessorErrors :
         IF failed /\ cro[p].calls.processor < 2
         THEN cro' = [cro EXCEPT ![p].calls.processor = @ + 1]
         ELSE cro' = [cro EXCEPT ![p].pc = "done",
                                 ![p].error = IF failed THEN error ELSE NoError,
                                 ![p].out = Append(@, IF failed THEN CroCatch(error)
                                                      ELSE Created(cro[p].keyId))]
    /\ UNCHANGED <<now, cacheVars, dbVars, callVars, shopVars>>

\* the processor answers razorpay.orders.create: an order, answered with
\* { orderId, keyId }, or a failure, which goes to the catch block
CroProcessorAnswer(p) ==
    /\ cro[p].pc = "processor"
    /\ \E failed \in BOOLEAN, error \in ProcessorErrors :
         cro' = [cro EXCEPT ![p].pc = "done",
                            ![p].error = IF failed THEN error ELSE NoError,
                            ![p].out = Append(@, IF failed THEN CroCatch(error)
                                                 ELSE Created(cro[p].keyId))]
    /\ UNCHANGED <<now, cacheVars, dbVars, callVars, shopVars>>

\* ------------------------------ controllers/order.controller.ts, placeOrder
\* req.body.guestDetails; present = FALSE is a body without the field
NoGuest == [present |-> FALSE, email |-> "", name |-> ""]
GuestNoEmail == [present |-> TRUE, email |-> "", name |-> "Asha"]
GuestWithEmail == [present |-> TRUE, email |-> "asha@example.in", name |-> "Asha"]

\* the callers: req.user?.id ("" without a user) and guestDetails
Callers ==
    { [user |-> "", guest |-> NoGuest],
      [user |-> "", guest |-> GuestNoEmail],
      [user |-> "", guest |-> GuestWithEmail],
      [user |-> "u1", guest |-> NoGuest] }

\* a line item of the payload; hasVariant = FALSE is an item without selectedVariant
NoSelectedVariant == [id |-> 0, price |-> 0, attributes |-> ""]
ItemA == [id |-> "p1", name |-> "Kajal", quantity |-> 1, hasVariant |-> TRUE,
          selectedVariant |-> [id |-> 1, price |-> 10, attributes |-> "red"]]
ItemB == [id |-> "p2", name |-> "Serum", quantity |-> 2, hasVariant |-> TRUE,
          selectedVariant |-> [id |-> 2, price |-> 20, attributes |-> "blue"]]
ItemBad == [id |-> "p1", name |-> "Kajal", quantity |-> 1, hasVariant |-> FALSE,
            selectedVariant |-> NoSelectedVariant]

\* payload item lists: up to MaxItems items, ItemA and ItemB in turn, and two
\* lists with an item that lacks its selectedVariant
ItemsInTurn(first, second, n) == [i \in 1 .. n |-> IF i % 2 = 1 THEN first ELSE second]
ItemLists ==
    { ItemsInTurn(ItemA, ItemB, n) : n \in 0 .. MaxItems }
    \cup { ItemsInTurn(ItemB, ItemA, n) : n \in 0 .. MaxItems }
    \cup { <<ItemBad>>, <<ItemA, ItemBad>> }

\* req.body.order; present = FALSE is a body without the field
OrderPayload(items, paymentType) ==
    [present |-> TRUE, items |-> items, paymentType |-> paymentType,
     totalAmount |-> 30, hasAddress |-> TRUE, city |-> "Pune"]
NoOrderPayload ==
    [present |-> FALSE, items |-> <<>>, paymentType |-> "", totalAmount |-> 0,
     hasAddress |-> FALSE, city |-> ""]
\* a payload without shippingAddress
NoAddress(order) == [order EXCEPT !.hasAddress = FALSE, !.city = ""]
OrderPayloads ==
    { OrderPayload(items, pt) : items \in ItemLists, pt \in {"cod", "card"} }
    \cup { NoAddress(OrderPayload(<<ItemA>>, "cod")), NoOrderPayload }

UnauthorizedDroppedNegation(userId, guestDetails) ==
    Truthy(userId) /\ ~Truthy(guestDetails.email)
UnauthorizedEither(userId, guestDetails) ==
    ~Truthy(userId) \/ ~Truthy(guestDetails.email)

\* if (!userId && !guestDetails?.email)
Unauthorized(userId, guestDetails) ==
    ~Truthy(userId) /\ ~Truthy(guestDetails.email)

\* orderData.shippingAddress.city, read when the feed message is built, throws
\* when the payload has no shippingAddress
MessageThrows(order) == ~order.hasAddress

\* orderData.items.map(...) throws when orderData is missing or an item has
\* no selectedVariant
MapThrows(order) ==
    \/ ~order.present
    \/ \E i \in 1 .. Len(order.items) : ~order.items[i].hasVariant

CatalogPrice(item) ==
    IF item.selectedVariant.id \in DOMAIN productVariant
       /\ productVariant[item.selectedVariant.id].present
    THEN productVariant[item.selectedVariant.id].price
    ELSE 0
OrderItemFromCatalog(item) ==
    [productId |-> item.id,
     variantId |-> item.selectedVariant.id,
     quantity |-> item.quantity,
     priceAtPurchase |-> CatalogPrice(item),
     variantSnapshot |-> item.selectedVariant.attributes]

\* the record one payload item is mapped to
OrderItem(item) ==
    [productId |-> item.id,
     variantId |-> item.selectedVariant.id,
     quantity |-> item.quantity,
     priceAtPurchase |-> item.selectedVariant.price,
     variantSnapshot |-> item.selectedVariant.attributes]

OrderItems(items) == [i \in 1 .. Len(items) |-> OrderItem(items[i])]

NewOrderPendingUntilConfirmed(userId, order) ==
    [totalAmount |-> order.totalAmount,
     status |-> "Processing",
     paymentType |-> order.paymentType,
     userId |-> userId,
     paymentStatus |-> "Pending",
     items |-> OrderItems(order.items)]

\* data of prisma.order.create
NewOrder(userId, order) ==
    [totalAmount |-> order.totalAmount,
     status |-> "Processing",
     paymentType |-> order.paymentType,
     userId |-> userId,
     paymentStatus |-> IF order.paymentType = "cod" THEN "Pending" ELSE "Success",
     items |-> OrderItems(order.items)]

\* orderData.items[0]?.name || 'an item'
FirstItemName(items) == IF Len(items) > 0 /\ Truthy(items[1].name) THEN items[1].name
                        ELSE "an item"
FeedMessage(order) == <<"Someone in", order.city, "just purchased a", FirstItemName(order.items)>>

\* the calls of prisma.order.create and prisma.activityLog.create one request made
Writes(order, feed) == [order |-> order, feed |-> feed]

placeOrderItemByItem(userId, guestDetails, order) ==
    /\ Len(orders) < MaxOrders
    /\ req' = [user |-> userId, guest |-> guestDetails]
    /\ IF Unauthorized(userId, guestDetails)
       THEN /\ res' = "401"
            /\ attempted' = Writes(0, 0)
            /\ UNCHANGED <<orders, activityLog>>
       ELSE IF MapThrows(order)
       THEN /\ res' = "error"
            /\ attempted' = Writes(0, 0)
            /\ UNCHANGED <<orders, activityLog>>
       ELSE \E written \in 0 .. Len(order.items), feedFails \in BOOLEAN :
              IF written < Len(order.items)
              THEN /\ res' = "error"
                   /\ attempted' = Writes(1, 0)
                   /\ orders' = Append(orders,
                                       [NewOrder(userId, order) EXCEPT
                                          !.items = SubSeq(@, 1, written)])
                   /\ UNCHANGED activityLog
              ELSE /\ orders' = Append(orders, NewOrder(userId, order))
                   /\ IF MessageThrows(order)
                      THEN /\ attempted' = Writes(1, 0)
                           /\ res' = "error"
                           /\ UNCHANGED activityLog
                      ELSE /\ attempted' = Writes(1, 1)
                           /\ IF feedFails
                              THEN /\ res' = "error"
                                   /\ UNCHANGED activityLog
                              ELSE /\ res' = "201"
                                   /\ activityLog' =
                                        Append(activityLog, FeedMessage(order))
    /\ UNCHANGED <<gatewayVars, adminActivityLog, catalogVars>>

placeOrderFeedIsolated(userId, guestDetails, order) ==
    /\ Len(orders) < MaxOrders
    /\ req' = [user |-> userId, guest |-> guestDetails]
    /\ IF Unauthorized(userId, guestDetails)
       THEN /\ res' = "401"
            /\ attempted' = Writes(0, 0)
            /\ UNCHANGED <<orders, activityLog>>
       ELSE IF MapThrows(order)
       THEN /\ res' = "error"
            /\ attempted' = Writes(0, 0)
            /\ UNCHANGED <<orders, activityLog>>
       ELSE \E createFails \in BOOLEAN, feedFails \in BOOLEAN :
              IF createFails
              THEN /\ res' = "error"
                   /\ attempted' = Writes(1, 0)
                   /\ UNCHANGED <<orders, activityLog>>
              ELSE /\ orders' = Append(orders, NewOrder(userId, order))
                   /\ res' = "201"
                   /\ IF MessageThrows(order)
                      THEN /\ attempted' = Writes(1, 0)
                           /\ UNCHANGED activityLog
                      ELSE /\ attempted' = Writes(1, 1)
                           /\ IF feedFails
                              THEN UNCHANGED activityLog
                              ELSE activityLog' = Append(activityLog, FeedMessage(order))
    /\ UNCHANGED <<gatewayVars, adminActivityLog, catalogVars>>

placeOrderRollingBack(userId, guestDetails, order) ==
    /\ Len(orders) < MaxOrders
    /\ req' = [user |-> userId, guest |-> guestDetails]
    /\ IF Unauthorized(userId, guestDetails)
       THEN /\ res' = "401"
            /\ attempted' = Writes(0, 0)
            /\ UNCHANGED <<orders, activityLog>>
       ELSE IF MapThrows(order)
       THEN /\ res' = "error"
            /\ attempted' = Writes(0, 0)
            /\ UNCHANGED <<orders, activityLog>>
       ELSE \E createFails \in BOOLEAN, feedFails \in BOOLEAN :
              IF createFails
              THEN /\ res' = "error"
                   /\ attempted' = Writes(1, 0)
                   /\ UNCHANGED <<orders, activityLog>>
              ELSE IF MessageThrows(order)
              THEN /\ attempted' = Writes(1, 0)
                   /\ res' = "error"
                   /\ UNCHANGED <<orders, activityLog>>
              ELSE /\ attempted' = Writes(1, 1)
                   /\ IF feedFails
                      THEN /\ res' = "error"
                           /\ UNCHANGED <<orders, activityLog>>
                      ELSE /\ res' = "201"
                           /\ orders' = Append(orders, NewOrder(userId, order))
                           /\ activityLog' = Append(activityLog, FeedMessage(order))
    /\ UNCHANGED <<gatewayVars, adminActivityLog, catalogVars>>

\* placeOrder: 401 without a user id and a guest email; otherwise map the
\* items, create the order with its items, append the feed entry, answer 201;
\* whatever throws inside the try goes to next(error)
placeOrder(userId, guestDetails, order) ==
    /\ Len(orders) < MaxOrders
    /\ req' = [user |-> userId, guest |-> guestDetails]
    /\ IF Unauthorized(userId, guestDetails)
       THEN /\ res' = "401"
            /\ attempted' = Writes(0, 0)
            /\ UNCHANGED <<orders, activityLog>>
       ELSE IF MapThrows(order)
       THEN /\ res' = "error"
            /\ attempted' = Writes(0, 0)
            /\ UNCHANGED <<orders, activityLog>>
       ELSE \E createFails \in BOOLEAN, feedFails \in BOOLEAN :
              IF createFails
              THEN /\ res' = "error"
                   /\ attempted' = Writes(1, 0)
                   /\ UNCHANGED <<orders, activityLog>>
              ELSE /\ orders' = Append(orders, NewOrder(userId, order))
                   /\ IF MessageThrows(order)
                      THEN /\ attempted' = Writes(1, 0)
                           /\ res' = "error"
                           /\ UNCHANGED activityLog
                      ELSE /\ attempted' = Writes(1, 1)
                           /\ IF feedFails
                              THEN /\ res' = "error"
                                   /\ UNCHANGED activityLog
                              ELSE /\ res' = "201"
                                   /\ activityLog' =
                                        Append(activityLog, FeedMessage(order))
    /\ UNCHANGED <<gatewayVars, adminActivityLog, catalogVars>>

\* ------------------------------- controllers/admin.controller.ts, the catalog
ProductIds == {"p1", "p2"}
VariantIds == 1 .. MaxVariants

NoProduct == [present |-> FALSE, price |-> 0, stockQuantity |-> 0]
NoVariantRow == [present |-> FALSE, productId |-> "", price |-> 0, attributes |-> "",
                 sku |-> "", stockQuantity |-> 0]

\* ids: 0 is a missing id, a negative number an id that is not 24 hex digits
\* (a client-side temporary id), a positive number an ObjectId
isMongoDbId(id) == id > 0

\* req.body of updateProduct; valid = the required fields are all there,
\* hasVariants = variants is an array
ProductBody(valid, price, hasVariants, variants) ==
    [valid |-> valid, price |-> price, hasVariants |-> hasVariants, variants |-> variants]
\* one entry of req.body.variants; productId = "" is an entry without the field
IncomingVariant(id, productId, price, attributes, sku) ==
    [id |-> id, productId |-> productId, price |-> price, attributes |-> attributes,
     sku |-> sku]

ExistingVariantIds(pv, id) == { v \in VariantIds : pv[v].present /\ pv[v].productId = id }
IncomingVariantIds(variants) ==
    { variants[i].id : i \in { j \in 1 .. Len(variants) : isMongoDbId(variants[j].id) } }
Creations(pv, id, variants) ==
    Cardinality({ i \in 1 .. Len(variants) :
                    ~(isMongoDbId(variants[i].id)
                      /\ variants[i].id \in ExistingVariantIds(pv, id)) })

\* data of tx.productVariant.update: every field of the entry but its id
UpdatedVariant(row, v) ==
    [row EXCEPT !.productId = IF v.productId # "" THEN v.productId ELSE @,
                !.price = v.price, !.attributes = v.attributes, !.sku = v.sku]

\* data of tx.productVariant.create: { ...data, productId: id }
CreatedVariant(id, v) ==
    [present |-> TRUE, productId |-> id, price |-> v.price,
     attributes |-> v.attributes, sku |-> v.sku, stockQuantity |-> 0]

\* the first n rounds of the for loop over incomingVariants, from entry i on:
\* update the variant when its id is one of this product's, create a new one
\* otherwise
RECURSIVE ApplyIncoming(_, _, _, _, _, _, _)
ApplyIncoming(pv, seq, existing, id, variants, i, n) ==
    IF i > n THEN [rows |-> pv, seq |-> seq]
    ELSE LET v == variants[i]
             vid == IF isMongoDbId(v.id) THEN v.id ELSE 0
         IN IF vid # 0 /\ vid \in existing
            THEN ApplyIncoming([pv EXCEPT ![vid] = UpdatedVariant(@, v)],
                               seq, existing, id, variants, i + 1, n)
            ELSE ApplyIncoming([pv EXCEPT ![seq + 1] = CreatedVariant(id, v)],
                               seq + 1, existing, id, variants, i + 1, n)

\* the variants this call deletes: this product's that the payload does not name
VariantsToDelete(pv, id, variants) ==
    ExistingVariantIds(pv, id) \ IncomingVariantIds(variants)

\* the statements of the transaction in program order: product.update, and for
\* a variants array findMany, deleteMany when there is something to delete, and
\* one update or create per entry
Statements(pv, id, body) ==
    IF body.hasVariants
    THEN 2 + (IF VariantsToDelete(pv, id, body.variants) # {} THEN 1 ELSE 0)
           + Len(body.variants)
    ELSE 1

\* the variants part of the transaction after `ran` of its statements
\* completed: findMany, deleteMany, then the loop
SyncVariants(pv, seq, id, variants, ran) ==
    LET existing == ExistingVariantIds(pv, id)
        toDelete == VariantsToDelete(pv, id, variants)
        deleting == IF toDelete # {} THEN 1 ELSE 0
        afterDelete == IF deleting = 1 /\ ran >= 2
                       THEN [v \in VariantIds |->
                               IF v \in toDelete THEN NoVariantRow ELSE pv[v]]
                       ELSE pv
        rounds == IF ran > 1 + deleting THEN ran - 1 - deleting ELSE 0
    IN ApplyIncoming(afterDelete, seq, existing, id, variants, 1, rounds)

\* the callback of prisma.$transaction when its failAt-th statement throws
\* (0: none does): what the statements before it wrote
Transaction(id, body, failAt) ==
    LET ran == IF failAt = 0 THEN Statements(productVariant, id, body) ELSE failAt - 1
        r == IF body.hasVariants
             THEN SyncVariants(productVariant, variantSeq, id, body.variants,
                               IF ran > 0 THEN ran - 1 ELSE 0)
             ELSE [rows |-> productVariant, seq |-> variantSeq]
    IN [product |-> IF ran >= 1 THEN [product EXCEPT ![id].price = body.price]
                    ELSE product,
        rows |-> r.rows,
        seq |-> r.seq,
        failed |-> failAt # 0]

\* the statements that may throw: any of them; product.update does when no
\* product has the id
FailurePoints(id, body) ==
    IF product[id].present THEN 0 .. Statements(productVariant, id, body) ELSE {1}

updateProductWithoutTransaction(id, body) ==
    /\ Len(adminActivityLog) < MaxAudit
    /\ body.hasVariants => variantSeq + Creations(productVariant, id, body.variants) <= MaxVariants
    /\ IF ~body.valid
       THEN /\ productRes' = "400"
            /\ UNCHANGED <<product, productVariant, variantSeq, adminActivityLog>>
       ELSE \E failAt \in FailurePoints(id, body) :
              LET tx == Transaction(id, body, failAt)
              IN /\ product' = tx.product
                 /\ productVariant' = tx.rows
                 /\ variantSeq' = tx.seq
                 /\ IF tx.failed
                    THEN /\ productRes' = "error"
                         /\ UNCHANGED adminActivityLog
                    ELSE /\ \E writeFails \in BOOLEAN :
                              logAdminAction(TRUE, "Updated product", writeFails)
                         /\ productRes' = "200"
    /\ UNCHANGED <<gatewayVars, orderVars>>

\* updateProduct: 400 on a missing required field; otherwise one transaction
\* (product update, variant sync) whose writes are committed together or,
\* when a statement throws, not at all; then the audit entry and the answer
updateProduct(id, body) ==
    /\ Len(adminActivityLog) < MaxAudit
    /\ body.hasVariants => variantSeq + Creations(productVariant, id, body.variants) <= MaxVariants
    /\ IF ~body.valid
       THEN /\ productRes' = "400"
            /\ UNCHANGED <<product, productVariant, variantSeq, adminActivityLog>>
       ELSE \E failAt \in FailurePoints(id, body) :
              IF failAt # 0
              THEN /\ productRes' = "error"
                   /\ UNCHANGED <<product, productVariant, variantSeq, adminActivityLog>>
              ELSE LET tx == Transaction(id, body, failAt)
                   IN /\ productRes' = "200"
                      /\ product' = tx.product
                      /\ productVariant' = tx.rows
                      /\ variantSeq' = tx.seq
                      /\ \E writeFails \in BOOLEAN :
                           logAdminAction(TRUE, "Updated product", writeFails)
    /\ UNCHANGED <<gatewayVars, orderVars>>

\* deleteProduct: prisma.product.delete throws when the product is gone; what
\* happens to the product's variants is the schema's referential action
deleteProduct(id) ==
    /\ Len(adminActivityLog) < MaxAudit
    /\ IF ~product[id].present
       THEN UNCHANGED <<catalogVars, adminActivityLog>>
       ELSE /\ product' = [product EXCEPT ![id] = NoProduct]
            /\ \E cascade \in BOOLEAN :
                 productVariant' =
                   [v \in VariantIds |->
                      IF cascade /\ productVariant[v].productId = id
                      THEN NoVariantRow ELSE productVariant[v]]
            /\ UNCHANGED <<variantSeq, productRes>>
            /\ \E writeFails \in BOOLEAN :
                 logAdminAction(TRUE, "Deleted product", writeFails)
    /\ UNCHANGED <<gatewayVars, orderVars>>

\* updateOrderStatus: prisma.order.update({ data: { status } }) throws when no
\* order has the id; ids are positions in the table
updateOrderStatus(id, status) ==
    /\ Len(adminActivityLog) < MaxAudit
    /\ IF id \in 1 .. Len(orders)
       THEN /\ orders' = [orders EXCEPT ![id].status = status]
            /\ \E writeFails \in BOOLEAN :
                 logAdminAction(TRUE, "Updated order status", writeFails)
       ELSE UNCHANGED <<orders, adminActivityLog>>
    /\ UNCHANGED <<gatewayVars, activityLog, req, res, attempted, catalogVars>>

\* updateStock: the variant with this product id and sku (404 when there is
\* none), or the base product when no sku is given
updateStock(productId, variantSku, newStock) ==
    /\ Len(adminActivityLog) < MaxAudit
    /\ IF Truthy(variantSku)
       THEN LET found == { v \in VariantIds : /\ productVariant[v].present
                                              /\ productVariant[v].productId = productId
                                              /\ productVariant[v].sku = variantSku }
            IN IF found # {}
               THEN /\ \E v \in found :
                         /\ \A w \in found : v <= w
                         /\ productVariant' =
                              [productVariant EXCEPT ![v].stockQuantity = newStock]
                    /\ UNCHANGED <<product, variantSeq, productRes>>
                    /\ \E writeFails \in BOOLEAN :
                         logAdminAction(TRUE, "Updated stock", writeFails)
               ELSE UNCHANGED <<catalogVars, adminActivityLog>>
       ELSE IF product[productId].present
            THEN /\ product' = [product EXCEPT ![productId].stockQuantity = newStock]
                 /\ UNCHANGED <<productVariant, variantSeq, productRes>>
                 /\ \E writeFails \in BOOLEAN :
                      logAdminAction(TRUE, "Updated stock", writeFails)
            ELSE UNCHANGED <<catalogVars, adminActivityLog>>
    /\ UNCHANGED <<gatewayVars, orderVars>>

\* ------------------------------------------------------------------- clock
\* time passes between two steps of the program
Tick(steps) ==
    /\ \E d \in steps :
         /\ now + d <= BootTime + MaxElapsed
         /\ now' = now + d
    /\ UNCHANGED <<cacheVars, dbVars, callVars, shopVars, cro>>

\* ------------------------------------------------------------ specification
Init ==
    /\ now = BootTime
    /\ razorpayInstance = NoClient
    /\ lastFetched = 0
    /\ integration = [n \in IntegrationNames |-> NoRecord]
    /\ adminActivityLog = <<>>
    /\ pc = [p \in Procs |-> "idle"]
    /\ fetched = [p \in Procs |-> NoFetch]
    /\ ret = [p \in Procs |-> NoClient]
    /\ hit = [p \in Procs |-> FALSE]
    /\ cfgChanged = [p \in Procs |-> FALSE]
    /\ readOutdated = [p \in Procs |-> FALSE]
    /\ cacheOutdated = FALSE
    /\ lookups = 0
    /\ built = 0
    /\ orders = <<>>
    /\ activityLog = <<>>
    /\ req = [user |-> "", guest |-> NoGuest]
    /\ res = "none"
    /\ attempted = Writes(0, 0)
    /\ cro = [p \in Procs |-> CroIdle]
    /\ paymentGateway = [n \in GatewayNames |-> NoRecord]
    /\ product = [id \in ProductIds |-> [present |-> TRUE, price |-> 10, stockQuantity |-> 5]]
    /\ productRes = "none"
    /\ productVariant =
         [v \in VariantIds |->
            IF v = 1
            THEN [present |-> TRUE, productId |-> "p1", price |-> 10, attributes |-> "red",
                  sku |-> "s1", stockQuantity |-> 5]
            ELSE IF v = 2
            THEN [present |-> TRUE, productId |-> "p2", price |-> 20, attributes |-> "blue",
                  sku |-> "s2", stockQuantity |-> 5]
            ELSE NoVariantRow]
    /\ variantSeq = 2

\* one caller at a time, the clock in steps that reach 59999, 60000 and more
NextCache ==
    \/ Tick(TickSteps)
    \/ getRazorpayInstance(1)
    \/ GriDbRead(1)
    \/ GriResume(1)
    \/ \E upserts \in {0, Len(DEFAULT_INTEGRATIONS)} : getIntegrations(upserts)
    \/ \E body \in UpdateBodies : updateIntegration("Razorpay", body)

SpecCache == Init /\ [][NextCache]_vars

\* the update bodies of the concurrent specification: the flag, and settings
\* that are complete or empty
RaceUpdateBodies ==
    { body \in UpdateBodies :
        Truthy(body.settings.apiKey) = Truthy(body.settings.apiSecret) }

\* concurrent callers, the clock in steps of one staleness window
NextRace ==
    \/ Tick({CACHE_TTL})
    \/ \E p \in Procs : getRazorpayInstance(p)
    \/ \E p \in Procs : GriDbRead(p)
    \/ \E p \in Procs : GriResume(p)
    \/ \E upserts \in {0, Len(DEFAULT_INTEGRATIONS)} : getIntegrations(upserts)
    \/ \E body \in RaceUpdateBodies : updateIntegration("Razorpay", body)

SpecRace == Init /\ [][NextRace]_vars

\* the admin payloads of the order specification
ProductBodies ==
    { ProductBody(TRUE, 20, FALSE, <<>>),
      ProductBody(TRUE, 20, TRUE, <<>>),
      ProductBody(TRUE, 20, TRUE, <<IncomingVariant(1, "", 20, "blue", "s1")>>) }

\* checkout, every caller and every payload, and the admin's status changes
NextOrder ==
    \/ \E c \in Callers, o \in OrderPayloads : placeOrder(c.user, c.guest, o)
    \/ \E id \in 1 .. MaxOrders + 1 : updateOrderStatus(id, "Shipped")

SpecOrder == Init /\ [][NextOrder]_vars

\* checkout (a signed-in user paying cash on delivery) and the catalog edits
\* that may follow it
NextCatalog ==
    \/ \E items \in ItemLists : placeOrder("u1", NoGuest, OrderPayload(items, "cod"))
    \/ \E body \in ProductBodies : updateProduct("p1", body)
    \/ deleteProduct("p1")
    \/ \E sku \in {"", "s1", "s9"} : updateStock("p1", sku, 0)

SpecCatalog == Init /\ [][NextCatalog]_vars

\* the payment-intent step of one caller, the configuration being edited and
\* the staleness window passing meanwhile
PaymentUpdateBodies ==
    { UpdateBody(TRUE, TRUE, TRUE, [apiKey |-> "k1", apiSecret |-> "s1"]),
      UpdateBody(FALSE, FALSE, TRUE, [apiKey |-> "k2", apiSecret |-> "s2"]),
      UpdateBody(FALSE, FALSE, TRUE, EmptySettings),
      UpdateBody(TRUE, FALSE, FALSE, EmptySettings) }

NextPayment ==
    \/ Tick({CACHE_TTL})
    \/ \E totalAmount \in Amounts : CroStart(1, totalAmount)
    \/ GriDbRead(1)
    \/ GriResume(1)
    \/ CroGotInstance(1)
    \/ CroDbRead(1)
    \/ CroGotSettings(1)
    \/ CroProcessorAnswer(1)
    \/ getIntegrations(Len(DEFAULT_INTEGRATIONS))
    \/ \E body \in PaymentUpdateBodies : updateIntegration("Razorpay", body)

SpecPayment == Init /\ [][NextPayment]_vars

\* checkout end to end: one payment-intent request at a time for one amount,
\* the order placement of a signed-in caller, the configuration being set up
NextCheckout ==
    \/ CroStart(1, Number(19999))
    \/ GriDbRead(1)
    \/ GriResume(1)
    \/ CroGotInstance(1)
    \/ CroDbRead(1)
    \/ CroGotSettings(1)
    \/ CroProcessorAnswer(1)
    \/ getIntegrations(Len(DEFAULT_INTEGRATIONS))
    \/ \E body \in { UpdateBody(TRUE, TRUE, TRUE, [apiKey |-> "k1", apiSecret |-> "s1"]),
                      UpdateBody(TRUE, FALSE, FALSE, EmptySettings) } :
         updateIntegration("Razorpay", body)
    \/ \E paymentType \in {"cod", "card"} :
         placeOrder("u1", NoGuest, OrderPayload(<<ItemA>>, paymentType))

SpecCheckout == Init /\ [][NextCheckout]_vars

\* the two admin tables and every handler that touches the configuration:
\* the lists being read (an upsert may fail), records being edited, a
\* payment-intent request and an order placement going on meanwhile
EnableBody == UpdateBody(TRUE, TRUE, TRUE, [apiKey |-> "k1", apiSecret |-> "s1"])

NextIntegrations ==
    \/ \E upserts \in 0 .. Len(DEFAULT_INTEGRATIONS) : getIntegrations(upserts)
    \/ \E name \in {"Razorpay", "Mailchimp"} : updateIntegration(name, EnableBody)
    \/ getPaymentGateways(Len(DEFAULT_GATEWAYS))
    \/ updatePaymentGateway("Razorpay", EnableBody)
    \/ CroStart(1, Number(19999))
    \/ GriDbRead(1)
    \/ GriResume(1)
    \/ CroGotInstance(1)
    \/ CroDbRead(1)
    \/ CroGotSettings(1)
    \/ CroProcessorAnswer(1)
    \/ placeOrder("u1", NoGuest, OrderPayload(<<ItemA>>, "card"))

SpecIntegrations == Init /\ [][NextIntegrations]_vars

\* the catalog editor: every variants payload of up to MaxIncoming entries,
\* an entry carrying no id, a temporary id, the id of one of this product's
\* variants or of another product's variant, and one that carries another
\* product's id as its productId
IncomingEntries ==
    { IncomingVariant(id, "", 20, "green", "s9") : id \in {0, -1, 1, 2} }
    \cup { IncomingVariant(1, "p2", 20, "green", "s9") }
VariantLists ==
    UNION { [1 .. n -> IncomingEntries] : n \in 0 .. MaxIncoming }
SyncBodies ==
    { ProductBody(TRUE, 20, TRUE, variants) : variants \in VariantLists }
    \cup { ProductBody(TRUE, 20, FALSE, <<>>), ProductBody(TRUE, 30, FALSE, <<>>),
           ProductBody(FALSE, 20, TRUE, <<>>) }

NextProduct ==
    \/ \E body \in SyncBodies : updateProduct("p1", body)
    \/ deleteProduct("p1")

SpecProduct == Init /\ [][NextProduct]_vars

\* ============================================================ the claims
StoredRazorpay == integration["Razorpay"]
StoredUsable == ConfigUsable([threw |-> FALSE, rec |-> StoredRazorpay])
Elapsed == now - lastFetched
BuiltFrom(c, st) == c.key_id = st.apiKey /\ c.key_secret = st.apiSecret

\* C1: a call made while a client is cached and fewer than 60000 ms have
\* passed since it was built returns that cached client, issues no
\* configuration lookup and leaves the cache as it is, whatever is stored.
C1_CacheHitNoLookup ==
    [][\A p \in Procs :
         (GriStart(p) /\ razorpayInstance # NoClient /\ Elapsed < CACHE_TTL)
         => /\ pc'[p] = "done"
            /\ ret'[p] = razorpayInstance
            /\ lookups' = lookups
            /\ UNCHANGED cacheVars]_vars

\* a hit 59999 ms after the build, the stored record being unusable throughout
C1_Witness ==
    /\ pc[1] = "done" /\ hit[1] /\ ~cfgChanged[1]
    /\ ret[1] = razorpayInstance
    /\ Elapsed = CACHE_TTL - 1
    /\ ~StoredUsable
    /\ lookups = 1

\* C2 (as claimed): with the stored record disabled or lacking a credential
\* during the whole call, the call returns null, whatever the cache holds.
C2_UnusableAlwaysNull ==
    \A p \in Procs :
        (pc[p] = "done" /\ ~cfgChanged[p] /\ ~StoredUsable) => ret[p] = NoClient

\* C3: a call made 60000 ms or more after the build issues a lookup, and the
\* continuation of a lookup that read an enabled record with both credentials
\* constructs a new client from that record, stamps it with the current time,
\* caches it and returns it.
C3_StaleRefetchAndRebuild ==
    [][\A p \in Procs :
         /\ (GriStart(p) /\ Elapsed >= CACHE_TTL)
            => (pc'[p] = "lookup" /\ lookups' = lookups + 1)
         /\ (GriResume(p) /\ ConfigUsable(fetched[p]))
            => /\ razorpayInstance'.id > built
               /\ BuiltFrom(razorpayInstance', fetched[p].rec.settings)
               /\ lastFetched' = now
               /\ ret'[p] = razorpayInstance'
               /\ pc'[p] = "done"]_vars

\* the second client, built by a call that began exactly 60000 ms after the first
C3_Witness ==
    /\ lookups = 2 /\ built = 2
    /\ razorpayInstance.id = 2
    /\ razorpayInstance.key_id = "k2"
    /\ lastFetched = BootTime + CACHE_TTL
    /\ pc[1] = "done" /\ ret[1] = razorpayInstance

\* C4: the continuation of a lookup that threw, or read no record, a disabled
\* one or one lacking a credential, clears the cache and resolves to null (the
\* call never rejects); a call that finds the cache empty issues a lookup.
C4_FailedLookupClears ==
    [][\A p \in Procs :
         /\ (GriResume(p) /\ ~ConfigUsable(fetched[p]))
            => /\ razorpayInstance' = NoClient
               /\ ret'[p] = NoClient
               /\ pc'[p] = "done"
         /\ (GriStart(p) /\ razorpayInstance = NoClient)
            => (pc'[p] = "lookup" /\ lookups' = lookups + 1)]_vars

\* a cached client was cleared by a failed lookup and the next call looks up again
C4_Witness ==
    /\ built = 1 /\ lookups = 3
    /\ razorpayInstance = NoClient
    /\ pc[1] = "lookup"

C6_UpdateKeepsCache ==
    [][/\ \A body \in UpdateBodies :
            updateIntegration("Razorpay", body) => UNCHANGED cacheVars
       /\ \A p \in Procs :
            (GriStart(p) /\ razorpayInstance # NoClient /\ Elapsed < CACHE_TTL
                /\ ~BuiltFrom(razorpayInstance, StoredRazorpay.settings))
            => ret'[p] = razorpayInstance]_vars

\* a call answered from the cache with a client of the previous credentials
C6_Witness ==
    /\ pc[1] = "done" /\ hit[1] /\ ~cfgChanged[1]
    /\ ret[1].key_id = "k1"
    /\ StoredUsable /\ StoredRazorpay.settings.apiKey = "k2"
    /\ Len(adminActivityLog) = 1

\* C7: placeOrder without a user and without guestDetails answers 401 and
\* writes nothing: no order, no order item, no feed entry.
C7_NoCallerNoPersistence ==
    [][\A c \in Callers, o \in OrderPayloads :
         (~Truthy(c.user) /\ ~c.guest.present /\ placeOrder(c.user, c.guest, o))
         => (res' = "401" /\ orders' = orders /\ activityLog' = activityLog)]_vars

\* the 401 given to a caller with neither, nothing persisted
C7_Witness ==
    /\ req = [user |-> "", guest |-> NoGuest]
    /\ res = "401"
    /\ orders = <<>> /\ activityLog = <<>>

C9_ItemsSnapshotRequest ==
    [][/\ \A c \in Callers, o \in OrderPayloads :
            (orders' # orders /\ placeOrder(c.user, c.guest, o))
            => /\ Len(orders') = Len(orders) + 1
               /\ LET items == orders'[Len(orders')].items
                  IN /\ Len(items) = Len(o.items)
                     /\ \A i \in 1 .. Len(o.items) :
                          /\ items[i].productId = o.items[i].id
                          /\ items[i].variantId = o.items[i].selectedVariant.id
                          /\ items[i].quantity = o.items[i].quantity
                          /\ items[i].priceAtPurchase = o.items[i].selectedVariant.price
                          /\ items[i].variantSnapshot = o.items[i].selectedVariant.attributes
       /\ \A k \in 1 .. Len(orders) :
            Len(orders') >= k /\ orders'[k].items = orders[k].items]_vars

\* an order of two items in payload order whose first variant has since been
\* repriced in the catalog by an audited updateProduct
C9_Witness ==
    /\ Len(orders) = 1
    /\ orders[1].items = <<OrderItem(ItemA), OrderItem(ItemB)>>
    /\ orders[1].items[1].priceAtPurchase = 10
    /\ productVariant[1].present /\ productVariant[1].price = 20
    /\ adminActivityLog = <<"Updated product">>

\* C10 (as claimed): every persisted order has at least one order item.
C10_OrderHasItems ==
    \A k \in 1 .. Len(orders) : Len(orders[k].items) >= 1

\* C11: an order persisted by placeOrder has status 'Processing' and
\* paymentStatus 'Pending' when its paymentType is 'cod', 'Success' for every
\* other payment type, the step contacting no payment processor; no step,
\* updateOrderStatus included, changes the paymentStatus of an existing order.
C11_PaymentStatusSetAtCreation ==
    [][/\ \A c \in Callers, o \in OrderPayloads :
            (orders' # orders /\ placeOrder(c.user, c.guest, o))
            => /\ Len(orders') = Len(orders) + 1
               /\ orders'[Len(orders')].status = "Processing"
               /\ orders'[Len(orders')].paymentStatus =
                    (IF o.paymentType = "cod" THEN "Pending" ELSE "Success")
               /\ UNCHANGED <<cro, cacheVars, lookups>>
       /\ \A k \in 1 .. Len(orders) :
            /\ Len(orders') >= k
            /\ orders'[k].paymentStatus = orders[k].paymentStatus]_vars

\* a card order, 'Success' since its creation, after the admin shipped it
C11_Witness ==
    /\ Len(orders) = 1
    /\ orders[1].paymentType = "card"
    /\ orders[1].paymentStatus = "Success"
    /\ orders[1].status = "Shipped"
    /\ adminActivityLog = <<"Updated order status">>
    /\ \A p \in Procs : cro[p] = CroIdle

\* C12: a placeOrder call leaves the orders as they were or adds one order
\* that carries all N items of its payload; no step removes or adds an item
\* of an order that exists.
C12_OrderAndItemsTogether ==
    [][/\ \A c \in Callers, o \in OrderPayloads :
            (orders' # orders /\ placeOrder(c.user, c.guest, o))
            => /\ Len(orders') = Len(orders) + 1
               /\ SubSeq(orders', 1, Len(orders)) = orders
               /\ Len(orders'[Len(orders')].items) = Len(o.items)
               /\ attempted'.order = 1
       /\ \A k \in 1 .. Len(orders) :
            Len(orders') >= k /\ Len(orders'[k].items) = Len(orders[k].items)]_vars

\* the order write of a signed-in caller failed: no order and no item is there
C12_Witness ==
    /\ req = [user |-> "u1", guest |-> NoGuest]
    /\ attempted = Writes(1, 0)
    /\ res = "error"
    /\ orders = <<>>

\* C13: a placeOrder call whose feed write failed (it issued the write and the
\* feed has no new entry) does not answer 201 and forwards the error, which
\* is what a call whose order write failed does; 201 is answered only with
\* the order and its feed entry both written.
C13_FeedFailureFailsPlacement ==
    [][\A c \in Callers, o \in OrderPayloads :
         placeOrder(c.user, c.guest, o)
         => /\ (attempted'.feed = 1 /\ activityLog' = activityLog) => res' = "error"
            /\ (attempted'.order = 1 /\ orders' = orders) => res' = "error"
            /\ res' = "201"
               => /\ orders' = Append(orders, NewOrder(c.user, o))
                  /\ activityLog' = Append(activityLog, FeedMessage(o))]_vars

\* the feed write failed after the order was written: the caller got the error
C13_Witness ==
    /\ attempted = Writes(1, 1)
    /\ res = "error"
    /\ Len(orders) = 1
    /\ activityLog = <<>>

\* C14: createRazorpayOrder with totalAmount absent, null, 0 or empty answers
\* 400 and does nothing else: the accessor is not called (cache, build time
\* and lookup count stay as they are), the handler reads no configuration
\* and the processor is not called.
C14_NoAmountNoSideEffect ==
    [][\A p \in Procs, totalAmount \in {Undefined, Null, EmptyString, Number(0)} :
         CroStart(p, totalAmount)
         => /\ cro'[p].pc = "done"
            /\ cro'[p].out = <<AmountRequired>>
            /\ cro'[p].calls = Calls(0, 0, 0)
            /\ cro'[p].options = NoOptions
            /\ UNCHANGED <<cacheVars, dbVars, callVars>>]_vars

\* a request without an amount answered 400 while a client is cached, the
\* lookup made before it being the only one
C14_Witness ==
    /\ cro[1].pc = "done"
    /\ cro[1].totalAmount = Null
    /\ cro[1].out = <<AmountRequired>>
    /\ razorpayInstance # NoClient
    /\ lookups = 1

\* C15 (as claimed): razorpay.orders.create is called only for a request whose
\* totalAmount is a positive number, and only with a positive amount.
C15_OnlyPositiveAmountSent ==
    \A p \in Procs :
        cro[p].calls.processor > 0
        => (cro[p].totalAmount.thousandths > 0 /\ cro[p].options.amount > 0)

\* C16: a request whose accessor call returned no client is answered 503 with
\* the message naming the integration settings, and one whose own read of the
\* configuration found no apiKey is answered 503 with the message naming the
\* key id; neither calls the processor, which is called only by a request
\* that holds a client and a key id.
C16_UnavailableWithoutClientOrKey ==
    [][\A p \in Procs :
         /\ (CroGotInstance(p) /\ ret[p] = NoClient)
            => /\ cro'[p].pc = "done"
               /\ cro'[p].out = <<ServiceUnavailable>>
               /\ cro'[p].out[1].status = 503
               /\ cro'[p].calls = Calls(1, 0, 0)
         /\ (CroGotSettings(p) /\ ~cro[p].fetched.threw
                /\ ~Truthy(cro[p].fetched.rec.settings.apiKey))
            => /\ cro'[p].pc = "done"
               /\ cro'[p].out = <<KeyNotConfigured>>
               /\ cro'[p].out[1].status = 503
               /\ cro'[p].calls = Calls(1, 1, 0)
         /\ cro'[p].calls.processor > 0
            => (cro'[p].razorpay # NoClient /\ Truthy(cro'[p].keyId))]_vars

\* a request that got the cached client and then found the stored apiKey gone
C16_Witness ==
    /\ cro[1].pc = "done"
    /\ cro[1].razorpay # NoClient
    /\ cro[1].out = <<KeyNotConfigured>>
    /\ hit[1]
    /\ ~Truthy(StoredRazorpay.settings.apiKey)

\* C17 (as claimed): the options of every call of razorpay.orders.create carry
\* the currency 'INR' and, the request's totalAmount being t thousandths of a
\* rupee, the amount floor((t + 5) / 10): t / 10 rounded to the nearest
\* integer, a half going up.
C17_AmountRoundedHalfUp ==
    \A p \in Procs :
        cro[p].calls.processor > 0
        => /\ cro[p].options.currency = "INR"
           /\ cro[p].options.amount = (cro[p].totalAmount.thousandths + 5) \div 10

\* C18: a request whose processor call was answered has exactly one outcome:
\* { orderId, keyId } when the call succeeded; the 503 answer with the
\* remediation message, and no next(error), when it failed with statusCode
\* 401 or with a description containing 'Authentication failed'; next(error)
\* with that error, and no 503, when it failed in any other way.
C18_AuthFailureIsUnavailable ==
    \A p \in Procs :
        (cro[p].pc = "done" /\ cro[p].calls.processor = 1)
        => /\ Len(cro[p].out) = 1
           /\ LET e == cro[p].error
                  o == cro[p].out[1]
              IN IF ~e.thrown
                 THEN o = Created(cro[p].keyId)
                 ELSE IF \/ e.statusCode = 401
                         \/ Includes(e.error.description, <<"Authentication", "failed">>)
                 THEN o.kind = "response" /\ o.status = 503 /\ o = AuthenticationFailed
                 ELSE o = Forwarded(e) /\ o.status # 503

\* a failure that is no 401 but whose description contains the words
C18_Witness ==
    /\ cro[1].pc = "done"
    /\ cro[1].calls.processor = 1
    /\ cro[1].error.statusCode = 400
    /\ cro[1].error.error.description =
         <<"BAD_REQUEST_ERROR:", "Authentication", "failed", "for", "key">>
    /\ cro[1].out = <<AuthenticationFailed>>

\* C19: one createRazorpayOrder request calls the accessor, reads the
\* configuration and calls the processor at most once each, and one placeOrder
\* request issues the order write and the feed write at most once each; a
\* request produces at most one outcome, exactly one once it has ended, a
\* failure when something was thrown, and a request that has ended does
\* nothing more (its frame changes only when the next request begins).
C19_NoRetry ==
    [][/\ \A p \in Procs :
            /\ cro'[p].calls.accessor <= 1
            /\ cro'[p].calls.config <= 1
            /\ cro'[p].calls.processor <= 1
            /\ Len(cro'[p].out) = (IF cro'[p].pc = "done" THEN 1 ELSE 0)
            /\ cro'[p].error.thrown
               => /\ cro'[p].pc = "done"
                  /\ cro'[p].out[1] \in {AuthenticationFailed, Forwarded(cro'[p].error)}
            /\ (cro[p].pc = "done" /\ cro'[p] # cro[p])
               => \E totalAmount \in Amounts : CroStart(p, totalAmount)
            /\ lookups' <= lookups + 1
       /\ attempted'.order <= 1
       /\ attempted'.feed <= 1
       /\ Len(orders') <= Len(orders) + 1]_vars

\* the processor call failed once, the error was forwarded once; the order
\* write of the placement that followed failed once
C19_Witness ==
    /\ cro[1].pc = "done"
    /\ cro[1].calls = Calls(1, 1, 1)
    /\ cro[1].error = Error(500, FALSE, <<>>)
    /\ cro[1].out = <<Forwarded(cro[1].error)>>
    /\ attempted = Writes(1, 0)
    /\ res = "error"
    /\ orders = <<>>

C21_UpdateAllOrNothing ==
    [][/\ \A body \in SyncBodies :
            (productRes' = "200" /\ updateProduct("p1", body))
            => LET tx == Transaction("p1", body, 0)
               IN product' = tx.product /\ productVariant' = tx.rows
       /\ (/\ productRes' # "200"
           /\ product'["p1"].present = product["p1"].present
           /\ \E body \in SyncBodies : updateProduct("p1", body))
          => /\ product' = product
             /\ productVariant' = productVariant
             /\ adminActivityLog' = adminActivityLog]_vars

\* a call on an existing product failed after an earlier call had succeeded
\* and created a variant: the tables still hold what the earlier call wrote
C21_Witness ==
    /\ productRes = "error"
    /\ product["p1"].present
    /\ product["p1"].price = 20
    /\ productVariant[3].present
    /\ adminActivityLog = <<>>

\* C22: in every successful createRazorpayOrder response the returned keyId is
\* the API key of the gateway client that created the processor order.
C22_KeyIdIsClientsKey ==
    \A p \in Procs :
      (/\ cro[p].pc = "done"
       /\ cro[p].calls.processor = 1
       /\ cro[p].error = NoError
       /\ Len(cro[p].out) = 1
       /\ cro[p].out[1].status = 200)
      => cro[p].out[1].keyId = cro[p].razorpay.key_id

\* C23: the cache never goes backwards. When the cache was last written from
\* a read of the configuration as it is now stored, a call whose own read is
\* older than the last change of the configuration does not overwrite the
\* cache with a client built from what it read.
C23_CacheNeverGoesBackwards ==
    [][\A p \in Procs :
         (readOutdated[p] /\ ~cacheOutdated /\ GriResume(p))
         => (razorpayInstance' = razorpayInstance \/ razorpayInstance' = NoClient)]_vars

\* C24: the feed entry of an order is written only after the order was
\* persisted. A placeOrder call that issues the feed write has persisted its
\* order before; a call that leaves the orders as they were leaves the feed
\* as it was; a call adds at most one feed entry, the one of its order; a
\* call whose feed write fails, or that throws before issuing it, keeps its
\* order and the order's items persisted and answers with the error. No step
\* removes an order or changes the items of one.
C24_FeedOnlyAfterOrder ==
    [][/\ \A c \in Callers, o \in OrderPayloads :
            placeOrder(c.user, c.guest, o)
            => /\ attempted'.feed <= attempted'.order
               /\ attempted'.feed = 1 => orders' = Append(orders, NewOrder(c.user, o))
               /\ orders' = orders => activityLog' = activityLog
               /\ \/ activityLog' = activityLog
                  \/ activityLog' = Append(activityLog, FeedMessage(o))
               /\ (orders' # orders /\ activityLog' = activityLog)
                  => /\ orders' = Append(orders, NewOrder(c.user, o))
                     /\ Len(orders'[Len(orders')].items) = Len(o.items)
                     /\ res' = "error"
       /\ \A k \in 1 .. Len(orders) :
            Len(orders') >= k /\ orders'[k].items = orders[k].items
       /\ Len(activityLog') <= Len(orders')]_vars

\* the feed write of a two-item order failed: the order and both items are
\* persisted, the feed is empty, the caller got the error
C24_Witness ==
    /\ attempted.feed = 1
    /\ res = "error"
    /\ Len(orders) = 1
    /\ Len(orders[1].items) = 2
    /\ activityLog = <<>>

\* C25: after a successful updateProduct whose payload carries a variants
\* array the product's variants are exactly its previous variants named in
\* the payload, each holding the data of an entry that names it, and one new
\* variant per entry whose id is missing, is not an ObjectId or is not the id
\* of one of the product's variants; its previous variants that the payload
\* does not name are deleted and the variants of other products are what
\* they were. Without a variants array no variant changes.
C25_VariantsSynced ==
    [][\A body \in SyncBodies :
         (productRes' = "200" /\ updateProduct("p1", body))
         => IF body.hasVariants
            THEN LET existing == ExistingVariantIds(productVariant, "p1")
                     kept == existing \cap IncomingVariantIds(body.variants)
                     created == (variantSeq + 1) .. variantSeq'
                 IN /\ ExistingVariantIds(productVariant', "p1") = kept \cup created
                    /\ variantSeq' = variantSeq
                                     + Creations(productVariant, "p1", body.variants)
                    /\ \A v \in kept :
                         \E i \in 1 .. Len(body.variants) :
                           /\ body.variants[i].id = v
                           /\ productVariant'[v].price = body.variants[i].price
                           /\ productVariant'[v].attributes = body.variants[i].attributes
                           /\ productVariant'[v].sku = body.variants[i].sku
                    /\ \A v \in existing \ kept : ~productVariant'[v].present
                    /\ \A v \in VariantIds \ existing :
                         v \notin created => productVariant'[v] = productVariant[v]
            ELSE productVariant' = productVariant]_vars

====
